---- MODULE Spec2Model ----
(***************************************************************************)
(* A model of the Indexer class of indexer.py: the size-string parser, the *)
(* fault-tolerant file probes, the size filters and the incremental        *)
(* unique/duplicate classification done by create_index.                   *)
(*                                                                         *)
(* A string is a sequence of one-character strings, so that the parser can *)
(* be computed character by character as the regular expressions do.       *)
(***************************************************************************)
EXTENDS Integers, Sequences, FiniteSets, TLC

\* ------------------------------------------------------------------ bounds
MaxFiles == 3        \* files in the walked tree
MaxCalls == 2        \* create_index calls on one Indexer instance
MaxFaults == 1       \* probes hit by an environment fault; faults are explored
                     \* in the first call of an instance, which is then not
                     \* called again
MaxLen == 5          \* length of the enumerated size strings

\* ------------------------------------------------------------ characters
Digits == {"0", "1", "2", "3", "4", "5", "6", "7", "8", "9"}
Whitespace == {" ", "\t", "\n"}
UnitLetters == {"K", "M", "G", "T"}

LowerCase == <<"a", "b", "c", "d", "e", "f", "g", "h", "i", "j", "k", "l", "m",
               "n", "o", "p", "q", "r", "s", "t", "u", "v", "w", "x", "y", "z">>
UpperCase == <<"A", "B", "C", "D", "E", "F", "G", "H", "I", "J", "K", "L", "M",
               "N", "O", "P", "Q", "R", "S", "T", "U", "V", "W", "X", "Y", "Z">>

\* str.upper() on one character, then on a string
UpperChar(c) ==
    IF \E i \in 1..Len(LowerCase) : LowerCase[i] = c
    THEN UpperCase[CHOOSE i \in 1..Len(LowerCase) : LowerCase[i] = c]
    ELSE c

Upper(s) == [i \in 1..Len(s) |-> UpperChar(s[i])]

DigitVal(c) ==
    CASE c = "0" -> 0 [] c = "1" -> 1 [] c = "2" -> 2 [] c = "3" -> 3
      [] c = "4" -> 4 [] c = "5" -> 5 [] c = "6" -> 6 [] c = "7" -> 7
      [] c = "8" -> 8 [] c = "9" -> 9

RECURSIVE Pow(_, _)
Pow(b, n) == IF n = 0 THEN 1 ELSE b * Pow(b, n - 1)

\* the value of a one-element set
The(S) == CHOOSE x \in S : TRUE

\* int() of a run of decimal digits, read up to its n-th digit
RECURSIVE NumVal(_, _)
NumVal(ds, n) ==
    IF n = 0 THEN 0 ELSE 10 * NumVal(ds, n - 1) + DigitVal(ds[n])

\* ------------------------------------------------- the regular expressions
\* A position is the index of the next character to read; a pattern element
\* maps the positions it may start at to the positions it ends at.  The
\* quantifiers are greedy; none of the three patterns needs to give a
\* character back, since what follows a quantifier never matches a character
\* that the quantifier's class holds and the pattern still requires.

\* the first position >= i whose character is not in class
RECURSIVE SkipWhile(_, _, _)
SkipWhile(s, i, class) ==
    IF i <= Len(s) /\ s[i] \in class THEN SkipWhile(s, i + 1, class) ELSE i

\* class*
Star(s, starts, class) == {SkipWhile(s, i, class) : i \in starts}

\* class+
Plus(s, starts, class) ==
    {SkipWhile(s, i, class) : i \in {k \in starts : k <= Len(s) /\ s[k] \in class}}

\* one literal character
Lit(s, starts, c) == {k + 1 : k \in {i \in starts : i <= Len(s) /\ s[i] = c}}

\* $: the end of the string, or just before a newline that ends the string
Dollar(s, starts) ==
    {k \in starts : k = Len(s) + 1 \/ (k = Len(s) /\ s[k] = "\n")}

\* ^\d+\.*\d*
NumberPattern(s) ==
    Star(s, Star(s, Plus(s, {1}, Digits), {"."}), Digits)

\* re.search(r"^\d+\.*\d*\s*[KMGT]*B$", s): the positions where group(0) ends,
\* none when the result is None
RegexValid(s) ==
    Dollar(s, Lit(s, Star(s, Star(s, NumberPattern(s), Whitespace), UnitLetters), "B"))

\* re.search(r"[KMGT]*B$", v).group(0): the leftmost match in a v that ends in B
UnitOf(v) ==
    SubSeq(v, The({p \in 1..Len(v) :
                     /\ Len(v) + 1 \in Dollar(v, Lit(v, Star(v, {p}, UnitLetters), "B"))
                     /\ \A q \in 1..(p - 1) :
                          Len(v) + 1 \notin Dollar(v, Lit(v, Star(v, {q}, UnitLetters), "B"))}),
           Len(v))

\* ---------------------------------------------------------- __parse_size
\* the exponent table of line 100
ExponentKeys == {<<"B">>, <<"K", "B">>, <<"M", "B">>, <<"G", "B">>, <<"T", "B">>}

Exponent(unit) ==
    CASE unit = <<"B">> -> 0
      [] unit = <<"K", "B">> -> 10
      [] unit = <<"M", "B">> -> 20
      [] unit = <<"G", "B">> -> 30
      [] unit = <<"T", "B">> -> 40

ParseFailure(kind) == [err |-> kind, num |-> 0, den |-> 1, exp |-> 0]

IsDigit(c) == c \in Digits

\* float() of a text made of digits and dots that begins with a digit: the
\* value is num / den; more than one dot is a ValueError
FloatOf(text) ==
    LET dots == {i \in 1..Len(text) : text[i] = "."}
    IN  IF Cardinality(dots) > 1 THEN [ok |-> FALSE, num |-> 0, den |-> 1]
        ELSE [ok |-> TRUE,
              num |-> NumVal(SelectSeq(text, IsDigit), Len(text) - Cardinality(dots)),
              den |-> Pow(10, IF dots = {} THEN 0 ELSE Len(text) - The(dots))]

\* lines 97-101, valid_str being group(0) of the match of line 94
ParseValid(valid_str) ==
    LET value == The({FloatOf(t) :
                        t \in {SubSeq(valid_str, 1, n - 1) : n \in NumberPattern(valid_str)}})
        unit == UnitOf(valid_str)
    IN  IF ~value.ok THEN ParseFailure("ValueError")
        ELSE IF unit \notin ExponentKeys THEN ParseFailure("KeyError")
        ELSE [err |-> "none", num |-> value.num, den |-> value.den,
              exp |-> Exponent(unit)]

\* __parse_size.  The value returned is num / den * 2^exp, kept as the three
\* integers; err names the exception raised, "none" when a value is returned.
ParseSize(size) ==
    The({IF RegexValid(u) = {} THEN ParseFailure("ValueError")
         ELSE The({ParseValid(v) : v \in {SubSeq(u, 1, e - 1) : e \in RegexValid(u)}})
           : u \in {Upper(size)}})

\* ------------------------------------------------------------ file probes
\* The filesystem primitives create_index calls on one file, in call order.
\* Each is invoked twice by __get_file_info_int: once inside __is_exception
\* (line 53) and once more for the value (line 71).
Primitives == <<"getsize", "getatime", "getctime">>

\* The environment during the probe of one file: the number of the first
\* invocation that raises.  1: every invocation raises (permission denied, a
\* broken symlink, a file already deleted); n: the file is deleted just before
\* invocation n; NoFault: no invocation raises.
NoFault == 2 * Len(Primitives) + 1
ProbeEnvs == 1..NoFault

FirstInvocation(prim) == 2 * prim - 1
SecondInvocation(prim) == 2 * prim

Raises(env, invocation) == invocation >= env

\* __is_exception: True when the invocation made inside the try block raises
IsException(env, prim) == Raises(env, FirstInvocation(prim))

\* __get_file_info_int: the sentinel 0 when __is_exception says so, else the
\* value of a second invocation, whose exception nothing catches
GetFileInfoInt(env, prim, value) ==
    IF IsException(env, prim) THEN [raised |-> FALSE, value |-> 0]
    ELSE IF Raises(env, SecondInvocation(prim)) THEN [raised |-> TRUE, value |-> 0]
    ELSE [raised |-> FALSE, value |-> value]

\* time.ctime of a timestamp
Ctime(t) == IF t = 0 THEN "Thu Jan  1 00:00:00 1970" ELSE "Sat Jan  1 00:00:00 2022"

\* lines 130-139: the record of the file at position path of the walk.
\* os.path.join, abspath and basename work on strings and do not raise.
Probe(entry, path, env) ==
    LET size == GetFileInfoInt(env, 1, entry.size)
        atime == GetFileInfoInt(env, 2, entry.time)
        ctime == GetFileInfoInt(env, 3, entry.time)
    IN  [raised |-> size.raised \/ atime.raised \/ ctime.raised,
         item |-> [AbsolutePath |-> path,
                   FileName |-> entry.name,
                   FileSize |-> size.value,
                   LastAccess |-> Ctime(atime.value),
                   Creation |-> Ctime(ctime.value)]]

\* ---------------------------------------------------------------- filters
\* __filter_by_min_size with > written for >=: a file of exactly the minimum
\* size is dropped
FilterByMinSize_Strict(parsed, file) ==
    file.FileSize * parsed.den > parsed.num * Pow(2, parsed.exp)

\* __filter_by_min_size, given the parsed size
FilterByMinSize(parsed, file) ==
    file.FileSize * parsed.den >= parsed.num * Pow(2, parsed.exp)

\* __filter_by_max_size, given the parsed size
FilterByMaxSize(parsed, file) ==
    file.FileSize * parsed.den <= parsed.num * Pow(2, parsed.exp)

\* the size strings given to the filters of a call
FilterArgs == {<<"1", " ", "B">>, <<"0", ".", "5", "b">>, <<"a", "b", "c">>}
FilterNames == {"min_size", "max_size"}

\* __parse_size on each of them: it is a function of its argument alone
ParsedArg == [a \in FilterArgs |-> ParseSize(a)]

\* lines 145-149: every filter is applied, none stops the loop; the first
\* __parse_size that raises ends the call.  filters maps the keyword names
\* given to their size strings; names lists them in the order the dict
\* yields them.
RECURSIVE ApplyFilters(_, _, _, _)
ApplyFilters(names, filters, file_item, filtered_out) ==
    IF Len(names) = 0 THEN [err |-> "none", filtered_out |-> filtered_out]
    ELSE
      LET name == Head(names)
          parsed == ParsedArg[filters[name]]
      IN  IF parsed.err /= "none" THEN [err |-> parsed.err, filtered_out |-> filtered_out]
          ELSE
            LET keep == IF name = "min_size" THEN FilterByMinSize(parsed, file_item)
                        ELSE FilterByMaxSize(parsed, file_item)
            IN  ApplyFilters(Tail(names), filters, file_item, filtered_out \/ ~keep)

\* the orders in which filters.items() may yield the keyword arguments: the
\* order the caller wrote them in
ItemOrders(filters) ==
    {o \in [1..Cardinality(DOMAIN filters) -> DOMAIN filters] :
        \A i, j \in DOMAIN o : i /= j => o[i] /= o[j]}

\* --------------------------------------------------------- classification
\* __is_duplicate without the comparison of the sizes
IsDuplicate_NameOnly(file_one, file_two) ==
    file_one.FileName = file_two.FileName

\* __is_duplicate
IsDuplicate(file_one, file_two) ==
    file_one.FileName = file_two.FileName /\ file_one.FileSize = file_two.FileSize

\* the first entry of list that is a duplicate of file_item, 0 when none is
FirstMatch(list, file_item) ==
    LET hits == {i \in 1..Len(list) : IsDuplicate(file_item, list[i])}
    IN  IF hits = {} THEN 0 ELSE CHOOSE i \in hits : \A j \in hits : i <= j

\* list.remove(x) left out: the list as it was
ListRemove_Keep(list, x) == list

\* list.remove(x): the list without its first element equal to x
ListRemove(list, x) ==
    LET hits == {i \in 1..Len(list) : list[i] = x}
        i0 == CHOOSE i \in hits : \A j \in hits : i <= j
    IN  IF hits = {} THEN list
        ELSE SubSeq(list, 1, i0 - 1) \o SubSeq(list, i0 + 1, Len(list))

\* lines 153-167: one qualifying record classified.  The found mark is an
\* attribute of the instance that nothing sets back to False.
Classify(uniq, dupl, found, file_item) ==
    LET u == FirstMatch(uniq, file_item)
        uniq1 == IF u > 0 THEN ListRemove(uniq, uniq[u]) ELSE uniq
        dupl1 == IF u > 0 THEN dupl \o <<uniq[u], file_item>> ELSE dupl
        found1 == found \/ u > 0
        d == IF found1 THEN 0 ELSE FirstMatch(dupl1, file_item)
        dupl2 == IF d > 0 THEN Append(dupl1, file_item) ELSE dupl1
        found2 == found1 \/ d > 0
        uniq2 == IF found2 THEN uniq1 ELSE Append(uniq1, file_item)
    IN  [uniques |-> uniq2, duplicates |-> dupl2, found_duplicate |-> found2]

\* ------------------------------------------------------------------ state
VARIABLES
    tree,             \* the files os.walk yields, in walk order
    files,            \* self.files
    uniques,          \* self.__uniques
    duplicates,       \* self.__duplicates
    found_duplicate,  \* self.__found_duplicate
    pc,               \* "idle", "walking", "returned" or "raised"
    dup,              \* the duplicates argument of the call
    filters,          \* the **filters of the call, name -> size string
    pos,              \* the position in tree of the next file of the walk
    ret,              \* the list the last completed call returned
    err,              \* the exception that ended the last call, or "none"
    processed,        \* the records built so far by the current call
    last_env,         \* the environment of the last probe of the call
    ncalls,           \* create_index calls begun on the instance
    faults,           \* probes hit by an environment fault so far
    prev_ret,         \* what the call before the current one returned
    repeat,           \* the current call repeats a completed call's options
    size_arg,         \* the argument of a __parse_size call
    parse_out         \* its outcome, "pending" before the call

vars == <<tree, files, uniques, duplicates, found_duplicate, pc, dup, filters,
          pos, ret, err, processed, last_env, ncalls, faults, prev_ret, repeat,
          size_arg, parse_out>>

\* the files a tree is made of, each with a base name, a size in bytes and a
\* timestamp: two differ in their size alone, two in their name alone
Entries ==
    {[name |-> "a", size |-> 0, time |-> 1],
     [name |-> "a", size |-> 1, time |-> 1],
     [name |-> "b", size |-> 1, time |-> 1]}
Trees == UNION {[1..n -> Entries] : n \in 0..MaxFiles}

\* keyword arguments: a size string for each name given
FilterSets == UNION {[ns -> FilterArgs] : ns \in SUBSET FilterNames}

NoFilters == CHOOSE f \in FilterSets : DOMAIN f = {}

\* __init__ (lines 41-45), for any tree under the path
InitIndexer ==
    /\ files = <<>>
    /\ uniques = <<>>
    /\ duplicates = <<>>
    /\ found_duplicate = FALSE

Init ==
    /\ tree \in Trees
    /\ InitIndexer
    /\ pc = "idle"
    /\ dup = FALSE
    /\ filters = NoFilters
    /\ pos = 1
    /\ ret = <<>>
    /\ err = "none"
    /\ processed = <<>>
    /\ last_env = NoFault
    /\ ncalls = 0
    /\ faults = 0
    /\ prev_ret = <<>>
    /\ repeat = FALSE
    /\ size_arg = <<>>
    /\ parse_out = ParseFailure("unused")

\* create_index is called (line 120), on a fresh instance or after an earlier
\* call returned or raised
CreateIndexBegin ==
    /\ pc \in {"idle", "returned", "raised"}
    /\ ncalls < MaxCalls
    /\ faults = 0
    /\ \E d \in BOOLEAN, f \in FilterSets :
         /\ dup' = d
         /\ filters' = f
         /\ repeat' = (pc = "returned" /\ d = dup /\ f = filters)
    /\ pc' = "walking"
    /\ pos' = 1
    /\ err' = "none"
    /\ processed' = <<>>
    /\ last_env' = NoFault
    /\ ncalls' = ncalls + 1
    /\ prev_ret' = ret
    /\ UNCHANGED <<tree, files, uniques, duplicates, found_duplicate, ret, faults,
                   size_arg, parse_out>>

\* the exception leaves create_index: the instance keeps what the loop did
Raise(kind) ==
    /\ pc' = "raised"
    /\ err' = kind
    /\ UNCHANGED <<files, uniques, duplicates, found_duplicate, pos, ret>>

\* one iteration of the loop of lines 129-171
CreateIndexStep ==
    /\ pc = "walking"
    /\ pos <= Len(tree)
    /\ \E env \in ProbeEnvs, order \in ItemOrders(filters) :
         /\ env = NoFault \/ (faults < MaxFaults /\ ncalls = 1)
         /\ faults' = IF env = NoFault THEN faults ELSE faults + 1
         /\ last_env' = env
         /\ LET probe == Probe(tree[pos], pos, env)
                file_item == probe.item
                filtered == ApplyFilters(order, filters, file_item, FALSE)
                cls == Classify(uniques, duplicates, found_duplicate, file_item)
                classify == ~filtered.filtered_out /\ dup
                files1 == IF ~filtered.filtered_out /\ ~dup
                          THEN Append(files, file_item) ELSE files
                files2 == IF DOMAIN filters = {} THEN Append(files1, file_item) ELSE files1
            IN  IF probe.raised
                THEN Raise("OSError") /\ processed' = processed
                ELSE IF filtered.err /= "none"
                THEN Raise(filtered.err) /\ processed' = Append(processed, file_item)
                ELSE /\ uniques' = IF classify THEN cls.uniques ELSE uniques
                     /\ duplicates' = IF classify THEN cls.duplicates ELSE duplicates
                     /\ found_duplicate' =
                          IF classify THEN cls.found_duplicate ELSE found_duplicate
                     /\ files' = files2
                     /\ pos' = pos + 1
                     /\ processed' = Append(processed, file_item)
                     /\ UNCHANGED <<pc, err, ret>>
    /\ UNCHANGED <<tree, dup, filters, ncalls, prev_ret, repeat, size_arg, parse_out>>

\* the walk is over: lines 172-175
CreateIndexEnd ==
    /\ pc = "walking"
    /\ pos > Len(tree)
    /\ files' = IF dup THEN duplicates ELSE files
    /\ ret' = files'
    /\ pc' = "returned"
    /\ UNCHANGED <<tree, uniques, duplicates, found_duplicate, dup, filters, pos,
                   err, processed, last_env, ncalls, faults, prev_ret, repeat,
                   size_arg, parse_out>>

Next == CreateIndexBegin \/ CreateIndexStep \/ CreateIndexEnd

Spec == Init /\ [][Next]_vars

\* ------------------------------------------------- the parser on its own
\* the characters the enumerated size strings are made of
Alphabet == {"5", ".", " ", "k", "K", "B", "-", "X", "\n"}

\* size strings written out in full
Examples ==
    {<<"1", ".", ".", "5", " ", "K", "B">>, <<"5", ".", "B">>,
     <<"5", " ", "K", "K", "B">>, <<"5", " ", "K", "M", "B">>,
     <<"a", "b", "c">>, <<"-", "5", "K", "B">>, <<"5", " ", "X", "B">>,
     <<"1", " ", "K", "B">>, <<"1", "M", "B">>, <<"0", ".", "5", " ", "G", "B">>,
     <<"3", "1", "5", " ", "K", "B">>, <<"2", "0", "0", " ", "K", "B">>,
     <<"1", " ", "G", "B">>, <<"2", "\t", "t", "b">>}

SizeStrings == UNION {[1..n -> Alphabet] : n \in 0..MaxLen} \cup Examples

InitParse ==
    /\ tree = <<>>
    /\ InitIndexer
    /\ pc = "idle"
    /\ dup = FALSE
    /\ filters = NoFilters
    /\ pos = 1
    /\ ret = <<>>
    /\ err = "none"
    /\ processed = <<>>
    /\ last_env = NoFault
    /\ ncalls = 0
    /\ faults = 0
    /\ prev_ret = <<>>
    /\ repeat = FALSE
    /\ size_arg \in SizeStrings
    /\ parse_out = ParseFailure("pending")

\* __parse_size is called on size_arg
ParseSizeCall ==
    /\ parse_out.err = "pending"
    /\ parse_out' = ParseSize(size_arg)
    /\ UNCHANGED <<tree, files, uniques, duplicates, found_duplicate, pc, dup,
                   filters, pos, ret, err, processed, last_env, ncalls, faults,
                   prev_ret, repeat, size_arg>>

NextParse == ParseSizeCall

SpecParse == InitParse /\ [][NextParse]_vars

\* ----------------------------------------------------------------- claims
Range(seq) == {seq[i] : i \in DOMAIN seq}

\* the (File Name, File Size) pair of a record
Key(r) == <<r.FileName, r.FileSize>>

\* a record satisfies every active filter of the current call: its size is
\* at least the min_size threshold and at most the max_size threshold
KeptByFilters(r) ==
    \A n \in DOMAIN filters :
        LET p == ParsedArg[filters[n]]
        IN  IF n = "min_size"
            THEN r.FileSize * p.den >= p.num * Pow(2, p.exp)
            ELSE r.FileSize * p.den <= p.num * Pow(2, p.exp)

\* the grammar <digits>[.<digits>][<spaces>][K|M|G|T]B, case-insensitive,
\* matched against the whole string
StrictForm(s) ==
    LET i1 == SkipWhile(s, 1, Digits)
        hasdot == i1 <= Len(s) /\ s[i1] = "."
        i2 == IF hasdot THEN SkipWhile(s, i1 + 1, Digits) ELSE i1
        i3 == SkipWhile(s, i2, {" "})
        i4 == IF i3 <= Len(s) /\ s[i3] \in {"K", "M", "G", "T", "k", "m", "g", "t"}
              THEN i3 + 1 ELSE i3
    IN  /\ i1 > 1
        /\ hasdot => i2 > i1 + 1
        /\ i4 = Len(s)
        /\ s[i4] \in {"B", "b"}

\* C1: a duplicates=True call on a fresh Indexer returns exactly the records
\* that pass every filter and share their (name, size) pair with another
\* record passing the filters.
C1_DuplicatesExact ==
    (pc = "returned" /\ dup /\ ncalls = 1) =>
        Range(ret) = {r \in Range(processed) :
                        /\ KeptByFilters(r)
                        /\ \E q \in Range(processed) :
                             q /= r /\ KeptByFilters(q) /\ Key(q) = Key(r)}

\* C2: with no filters and duplicates=False, a call on a fresh Indexer returns
\* one record per visited file, in walk order, and self.files holds the same.
C2_OneRecordPerFile ==
    (pc = "returned" /\ ~dup /\ DOMAIN filters = {} /\ ncalls = 1) =>
        (ret = processed /\ files = processed)

\* C3: with size filters and duplicates=False, a call on a fresh Indexer
\* returns, once each and in walk order, exactly the visited files whose size
\* satisfies every active filter.
C3_FiltersExact ==
    (pc = "returned" /\ ~dup /\ DOMAIN filters /= {} /\ ncalls = 1) =>
        ret = SelectSeq(processed, KeptByFilters)

C3_Witness ==
    /\ pc = "returned" /\ ~dup /\ ncalls = 1
    /\ DOMAIN filters = FilterNames
    /\ Len(ret) >= 2
    /\ \E r \in Range(processed) :
         /\ ~KeptByFilters(r)
         /\ r.FileSize * ParsedArg[filters["max_size"]].den
              <= ParsedArg[filters["max_size"]].num
                   * Pow(2, ParsedArg[filters["max_size"]].exp)

\* C4: in every reachable state, over any sequence of calls, no (name, size)
\* pair occurs both in __uniques and in __duplicates.
C4_UniquesDuplicatesDisjoint ==
    \A i \in DOMAIN uniques, j \in DOMAIN duplicates :
        Key(uniques[i]) /= Key(duplicates[j])

C4_Witness ==
    /\ ncalls = 2 /\ dup /\ pc = "walking" /\ pos > 1
    /\ Len(uniques) > 0
    /\ Len(duplicates) >= 4

\* C5: every record of the list a duplicates=True call returns shares its
\* (name, size) pair with another record of that list.
C5_NoSingletonInResult ==
    (pc = "returned" /\ dup) =>
        \A i \in DOMAIN ret :
            \E j \in DOMAIN ret : j /= i /\ Key(ret[j]) = Key(ret[i])

C5_Witness ==
    /\ pc = "returned" /\ dup
    /\ Len(ret) >= 4
    /\ \E i, j \in DOMAIN ret : Key(ret[i]) /= Key(ret[j])

\* C6: a filesystem primitive that raises on any invocation made for a field
\* leaves the field at its sentinel, and no probe error leaves create_index.
C6_ProbeFaultTolerant ==
    /\ err /= "OSError"
    /\ (last_env /= NoFault /\ Len(processed) > 0) =>
         LET r == processed[Len(processed)]
             hit(prim) == \/ Raises(last_env, FirstInvocation(prim))
                          \/ Raises(last_env, SecondInvocation(prim))
         IN  /\ hit(1) => r.FileSize = 0
             /\ hit(2) => r.LastAccess = Ctime(0)
             /\ hit(3) => r.Creation = Ctime(0)

\* C7: a call given a malformed size string never completes successfully,
\* whatever the tree.
C7_EagerValidation ==
    pc = "returned" => \A n \in DOMAIN filters : StrictForm(filters[n])

\* C8: the parser accepts exactly the strings of the grammar and rejects every
\* other string with ValueError, never with another error.
C8_ParserExact ==
    parse_out.err /= "pending" =>
        /\ parse_out.err = "none" <=> StrictForm(size_arg)
        /\ parse_out.err \in {"none", "ValueError"}

\* C9: at every point of a duplicates=True scan on a fresh Indexer, __uniques
\* and __duplicates together hold exactly the qualifying records processed so
\* far.
C9_ExhaustivePartition ==
    (dup /\ ncalls = 1 /\ pc \in {"walking", "returned"}) =>
        Range(uniques) \cup Range(duplicates)
            = {r \in Range(processed) : KeptByFilters(r)}

\* C10: a call that repeats the options of the call before it, over the same
\* tree, returns a list equal to that call's result.
C10_Repeatable ==
    (pc = "returned" /\ repeat) => ret = prev_ret

====
